---- MODULE Spec2Model ----
(***************************************************************************)
(* The turing.game custodial ledger (anchor/programs/basic/src/lib.rs).    *)
(*                                                                         *)
(* The committed state is the Game record, the UserAccount records and the *)
(* SPL token accounts.  An instruction runs in two steps, as the Anchor    *)
(* entry point generated by #[program] runs it: the handler works on       *)
(* deserialized copies of the accounts it was handed (and on the token     *)
(* accounts through CPI, inside the transaction), which gives the staged   *)
(* state and a result; then Exit writes the copies back when the result is *)
(* Ok and the runtime discards everything when it is an error.             *)
(***************************************************************************)
EXTENDS Integers, FiniteSets, Sequences, TLC

\* ------------------------------------------------------------------ bounds
\* u64::MAX, scaled down so that overflow is reachable
MaxU64 == 2047
\* number of UserAccount addresses
MaxAccounts == 3
\* number of committed instructions in a run
MaxCalls == 4

\* ------------------------------------------------------ identities, inputs
Signers == {"A", "U"}
\* the program-derived address of the Game record (seeds = [b"game"])
GamePda == "G"
\* the bump find_program_address yields for seeds [b"game"] and the program id
CanonicalBump == 251
Bumps == {CanonicalBump, 7}
Addrs == 1..MaxAccounts
\* absent optional account (winner_account / loser_account = None)
NoAddr == 0
\* one SPL token account per identity, named by its owner
TokenAccts == Signers \cup {GamePda}
\* token amounts of deposit, withdraw, admin_deposit, admin_withdraw
Amounts == {2000}
\* stakes of attest_outcome: fee 0 and net 4, fee 50 and net 450
Stakes == {4, 500}
None == -1

NoGame == [exists |-> FALSE, bump |-> 0, authority |-> "none"]
NoAccount == [user |-> "none", balance |-> 0]
NoCall == [op |-> "none", signer |-> "none", acct |-> NoAddr, winner |-> NoAddr,
           loser |-> NoAddr, from |-> "none", to |-> "none", amount |-> 0,
           err |-> "none"]

VARIABLES game, accounts, tokens, pc, call, staged, nCalls
vars == <<game, accounts, tokens, pc, call, staged, nCalls>>

\* ------------------------------------------------------------- arithmetic
checked_add_Wrapping(a, b) == (a + b) % (MaxU64 + 1)
checked_add(a, b) == IF a + b > MaxU64 THEN None ELSE a + b
checked_sub(a, b) == IF a < b THEN None ELSE a - b
game_fee(stake) == stake \div 10
net_stake(stake) == stake - game_fee(stake)

Existing(accs) == {a \in Addrs : accs[a].user # "none"}
Free(accs) == Addrs \ Existing(accs)
\* a fresh keypair address: addresses are opaque, the least free one is taken
NextFree(accs) == {a \in Free(accs) : \A b \in Free(accs) : a <= b}
SumBalances(accs) == LET RECURSIVE Sum(_)
                         Sum(S) == IF S = {} THEN 0
                                   ELSE LET a == CHOOSE x \in S : TRUE
                                        IN accs[a].balance + Sum(S \ {a})
                     IN Sum(Addrs)
Vault(toks) == toks[GamePda]

\* ------------------------------------------------------ token::transfer CPI
\* signed: the authority account carries a signature (a transaction signer,
\* or the Game PDA signed for with seeds that derive its address)
TransferOk_Always(toks, from, authority, signed, amount) == TRUE
TransferOk(toks, from, authority, signed, amount) ==
    /\ toks[from] >= amount
    /\ from = authority
    /\ signed
Transfer(toks, from, to, amount) ==
    IF from = to THEN toks
    ELSE [toks EXCEPT ![from] = @ - amount, ![to] = @ + amount]
\* invoke_signed with seeds [b"game", [game.bump]] signs for the Game PDA only
\* if the stored bump derives the PDA's address
GameSigns(g) == g.bump = CanonicalBump

Committed == [game |-> game, accounts |-> accounts, tokens |-> tokens]

\* an instruction enters the handler with its accounts deserialized; it
\* leaves it with a result and the state its copies and CPIs have reached
Begin(c, e, st) ==
    /\ pc = "idle"
    /\ nCalls < MaxCalls
    /\ pc' = "exec"
    /\ call' = [c EXCEPT !.err = e]
    /\ staged' = st
    /\ UNCHANGED <<game, accounts, tokens, nCalls>>

\* ---------------------------------------------------------------- handlers
initialize_IfNeeded(signer, addr, bump) ==
    LET c == [NoCall EXCEPT !.op = "initialize", !.signer = signer,
                            !.acct = addr, !.amount = bump]
    IN IF accounts[addr].user # "none"
       THEN Begin(c, "AccountAlreadyInUse", Committed)
       ELSE Begin(c, "Ok", [Committed EXCEPT
                !.game = [exists |-> TRUE, bump |-> bump, authority |-> signer],
                !.accounts[addr] = [user |-> GamePda, balance |-> 0]])
initialize(signer, addr, bump) ==
    LET c == [NoCall EXCEPT !.op = "initialize", !.signer = signer,
                            !.acct = addr, !.amount = bump]
    IN IF game.exists \/ accounts[addr].user # "none"
       THEN Begin(c, "AccountAlreadyInUse", Committed)
       ELSE Begin(c, "Ok", [Committed EXCEPT
                !.game = [exists |-> TRUE, bump |-> bump, authority |-> signer],
                !.accounts[addr] = [user |-> GamePda, balance |-> 0]])

create_user_account(signer, addr) ==
    LET c == [NoCall EXCEPT !.op = "create_user_account", !.signer = signer,
                            !.acct = addr]
    IN IF accounts[addr].user # "none"
       THEN Begin(c, "AccountAlreadyInUse", Committed)
       ELSE Begin(c, "Ok", [Committed EXCEPT
                !.accounts[addr] = [user |-> signer, balance |-> 0]])

\* deposit and admin_deposit have the same body: its result on the state st
\* is the error it returns and the state its CPI and its copies have reached
DepositResult(st, signer, acct, from, to, amount) ==
    LET moved == [st EXCEPT !.tokens = Transfer(st.tokens, from, to, amount)]
        sum == checked_add(st.accounts[acct].balance, amount)
    IN IF ~TransferOk(st.tokens, from, signer, TRUE, amount)
       THEN [err |-> "TransferFailed", st |-> st]
       ELSE IF sum = None
       THEN [err |-> "Panic", st |-> moved]
       ELSE [err |-> "Ok", st |-> [moved EXCEPT !.accounts[acct].balance = sum]]

DepositBody(op, signer, acct, from, to, amount) ==
    LET c == [NoCall EXCEPT !.op = op, !.signer = signer, !.acct = acct,
                            !.from = from, !.to = to, !.amount = amount]
        r == DepositResult(Committed, signer, acct, from, to, amount)
    IN Begin(c, r.err, r.st)

deposit(signer, acct, from, to, amount) ==
    DepositBody("deposit", signer, acct, from, to, amount)

admin_deposit(signer, acct, from, to, amount) ==
    DepositBody("admin_deposit", signer, acct, from, to, amount)

\* require!(balance >= amount, InsufficientFunds) of withdraw, admin_withdraw
InsufficientFunds_Never(balance, amount) == FALSE
InsufficientFunds(balance, amount) == ~(balance >= amount)

\* withdraw and admin_withdraw have the same accounts and the same body; the
\* game account is validated first (Account<Game>): while no Game record
\* exists the instruction fails before the handler is entered
WithdrawResult(st, acct, from, to, amount) ==
    LET moved == [st EXCEPT !.tokens = Transfer(st.tokens, from, to, amount)]
        diff == checked_sub(st.accounts[acct].balance, amount)
    IN IF ~st.game.exists
       THEN [err |-> "AccountNotInitialized", st |-> st]
       ELSE IF InsufficientFunds(st.accounts[acct].balance, amount)
       THEN [err |-> "InsufficientFunds", st |-> st]
       ELSE IF ~TransferOk(st.tokens, from, GamePda, GameSigns(st.game), amount)
       THEN [err |-> "TransferFailed", st |-> st]
       ELSE IF diff = None
       THEN [err |-> "Panic", st |-> moved]
       ELSE [err |-> "Ok", st |-> [moved EXCEPT !.accounts[acct].balance = diff]]

WithdrawBody(op, signer, acct, from, to, amount) ==
    LET c == [NoCall EXCEPT !.op = op, !.signer = signer, !.acct = acct,
                            !.from = from, !.to = to, !.amount = amount]
        r == WithdrawResult(Committed, acct, from, to, amount)
    IN Begin(c, r.err, r.st)

withdraw(signer, acct, from, to, amount) ==
    WithdrawBody("withdraw", signer, acct, from, to, amount)

admin_withdraw(signer, acct, from, to, amount) ==
    WithdrawBody("admin_withdraw", signer, acct, from, to, amount)

\* AccountsExit writes the copies of the mutable accounts back in field
\* order: game_user_account, winner_account, loser_account (a later copy of
\* the same address overwrites an earlier one)
WriteBack(accs, gua, gbal, winner, wbal, loser, lbal) ==
    LET a1 == [accs EXCEPT ![gua].balance = gbal]
        a2 == IF winner = NoAddr THEN a1 ELSE [a1 EXCEPT ![winner].balance = wbal]
    IN IF loser = NoAddr THEN a2 ELSE [a2 EXCEPT ![loser].balance = lbal]

\* the balance of the copy deserialized from an (optional) account
Loaded(accs, a) == IF a = NoAddr THEN 0 ELSE accs[a].balance

\* require!(loser_account.balance >= stake, InsufficientFunds)
LoserShort_Never(balance, stake) == FALSE
LoserShort_Fee(balance, stake) == ~(balance >= game_fee(stake))
LoserShort(balance, stake) == ~(balance >= stake)

attest_outcome(signer, gua, winner, loser, stake) ==
    LET c == [NoCall EXCEPT !.op = "attest_outcome", !.signer = signer,
                            !.acct = gua, !.winner = winner, !.loser = loser,
                            !.amount = stake]
        fee == game_fee(stake)
        net == net_stake(stake)
        g0 == Loaded(accounts, gua)
        w0 == Loaded(accounts, winner)
        l0 == Loaded(accounts, loser)
        wbal == IF winner = NoAddr THEN 0 ELSE checked_add(w0, net)
        lbal == IF loser = NoAddr THEN 0 ELSE checked_sub(l0, stake)
        gbal == checked_add(g0, fee)
        Copies(g, w, l) ==
            [Committed EXCEPT !.accounts = WriteBack(accounts, gua, g, winner, w, loser, l)]
    IN IF ~game.exists
       THEN Begin(c, "AccountNotInitialized", Committed)
       ELSE IF game.bump # CanonicalBump
       THEN Begin(c, "ConstraintSeeds", Committed)
       ELSE IF signer # game.authority
       THEN Begin(c, "Unauthorized", Committed)
       ELSE IF wbal = None
       THEN Begin(c, "ArithmeticError", Copies(g0, w0, l0))
       ELSE IF loser # NoAddr /\ LoserShort(l0, stake)
       THEN Begin(c, "InsufficientFunds", Copies(g0, wbal, l0))
       ELSE IF lbal = None
       THEN Begin(c, "ArithmeticError", Copies(g0, wbal, l0))
       ELSE IF gbal = None
       THEN Begin(c, "ArithmeticError", Copies(g0, wbal, lbal))
       ELSE Begin(c, "Ok", Copies(gbal, wbal, lbal))

\* the state an instruction with result r leaves behind when it was run on st
Settle(st, r) == IF r.err = "Ok" THEN r.st ELSE st

\* the end of the instruction: Ok persists the staged state, an error
\* leaves the committed state as it was
Exit ==
    /\ pc = "exec"
    /\ pc' = "idle"
    /\ IF call.err = "Ok"
       THEN /\ game' = staged.game
            /\ accounts' = staged.accounts
            /\ tokens' = staged.tokens
            /\ nCalls' = nCalls + 1
       ELSE UNCHANGED <<game, accounts, tokens, nCalls>>
    /\ call' = NoCall
    /\ staged' = [game |-> game', accounts |-> accounts', tokens |-> tokens']

\* -------------------------------------------------------------------- spec
InitialTokens == [t \in TokenAccts |-> IF t = "U" THEN 2000 ELSE IF t = "A" THEN 3 ELSE 0]

Init ==
    /\ game = NoGame
    /\ accounts = [a \in Addrs |-> NoAccount]
    /\ tokens = InitialTokens
    /\ pc = "idle"
    /\ call = NoCall
    /\ staged = [game |-> NoGame, accounts |-> [a \in Addrs |-> NoAccount],
                 tokens |-> InitialTokens]
    /\ nCalls = 0

\* The token source handed to deposit and admin_deposit is the signer's own
\* token account, the one handed to withdraw and admin_withdraw is the game
\* vault; the destination, the record and the roles of attest_outcome are any
\* the caller chooses.
Next ==
    \/ \E s \in Signers, a \in Existing(accounts) \cup NextFree(accounts), b \in Bumps :
          initialize(s, a, b)
    \/ \E s \in Signers, a \in Existing(accounts) \cup NextFree(accounts) :
          create_user_account(s, a)
    \/ \E s \in Signers, a \in Existing(accounts), t \in TokenAccts, n \in Amounts :
          deposit(s, a, s, t, n)
    \/ \E s \in Signers, a \in Existing(accounts), t \in TokenAccts, n \in Amounts :
          withdraw(s, a, GamePda, t, n)
    \/ \E s \in Signers, g \in Existing(accounts),
          w \in Existing(accounts) \cup {NoAddr}, l \in Existing(accounts) \cup {NoAddr},
          n \in Stakes : attest_outcome(s, g, w, l, n)
    \/ \E s \in Signers, a \in Existing(accounts), t \in TokenAccts, n \in Amounts :
          admin_deposit(s, a, s, t, n)
    \/ \E s \in Signers, a \in Existing(accounts), t \in TokenAccts, n \in Amounts :
          admin_withdraw(s, a, GamePda, t, n)
    \/ Exit

Spec == Init /\ [][Next]_vars

\* The same program driven with the amounts of the end-to-end scenario: a
\* deposit of 1000, a stake of 500 (fee 50, net 450), an admin withdrawal of 50
ScenarioDeposits == {1000}
ScenarioStakes == {500}
ScenarioWithdrawals == {50}

NextScenario ==
    \/ \E s \in Signers, a \in Existing(accounts) \cup NextFree(accounts), b \in Bumps :
          initialize(s, a, b)
    \/ \E s \in Signers, a \in Existing(accounts) \cup NextFree(accounts) :
          create_user_account(s, a)
    \/ \E s \in Signers, a \in Existing(accounts), t \in TokenAccts, n \in ScenarioDeposits :
          deposit(s, a, s, t, n)
    \/ \E s \in Signers, a \in Existing(accounts), t \in TokenAccts, n \in ScenarioWithdrawals :
          withdraw(s, a, GamePda, t, n)
    \/ \E s \in Signers, g \in Existing(accounts),
          w \in Existing(accounts) \cup {NoAddr}, l \in Existing(accounts) \cup {NoAddr},
          n \in ScenarioStakes : attest_outcome(s, g, w, l, n)
    \/ \E s \in Signers, a \in Existing(accounts), t \in TokenAccts, n \in ScenarioDeposits :
          admin_deposit(s, a, s, t, n)
    \/ \E s \in Signers, a \in Existing(accounts), t \in TokenAccts, n \in ScenarioWithdrawals :
          admin_withdraw(s, a, GamePda, t, n)
    \/ Exit

SpecScenario == Init /\ [][NextScenario]_vars

TypeOK ==
    /\ pc \in {"idle", "exec"}
    /\ nCalls \in 0..MaxCalls
    /\ \A a \in Addrs : accounts[a].balance \in 0..MaxU64
    /\ \A t \in TokenAccts : tokens[t] \in 0..MaxU64

\* ================================================================== claims
InCall(op) == pc = "exec" /\ call.op = op
\* the game's own operating account: the record initialize created
GameAccounts(accs) == {a \in Addrs : accs[a].user = GamePda}
\* how the code reports the spec's AlreadyExists: the system program's
\* create_account / allocate error raised under the init constraint
AlreadyExists == "AccountAlreadyInUse"

\* C1: in every reachable state the sum of the balances of all UserAccount
\* records is at most the token amount held in the game vault.
C1_Solvency == SumBalances(accounts) <= Vault(tokens)

\* C2: a deposit or a withdraw on a UserAccount record succeeds only if the
\* signer is that record's owner.
C2_OwnerOnly ==
    ((InCall("deposit") \/ InCall("withdraw")) /\ call.err = "Ok")
        => call.signer = accounts[call.acct].user

\* C3: admin-deposit and admin-withdraw succeed only if the signer is
\* Game.authority.
C3_AuthorityOnly ==
    ((InCall("admin_deposit") \/ InCall("admin_withdraw")) /\ call.err = "Ok")
        => (game.exists /\ call.signer = game.authority)

\* C4: attest-outcome signed by an identity other than Game.authority fails
\* with Unauthorized and changes no balance.
C4_UnauthorizedAttest ==
    [][(InCall("attest_outcome") /\ game.exists /\ call.signer # game.authority)
          => (call.err = "Unauthorized" /\ accounts' = accounts)]_vars

\* the case of C5: a loser is present and holds less than the stake
LoserIsShort ==
    /\ InCall("attest_outcome")
    /\ call.loser # NoAddr
    /\ accounts[call.loser].balance < call.amount
\* the checks attest-outcome makes before it looks at the loser all pass
ReachesLoserCheck ==
    /\ game.exists
    /\ game.bump = CanonicalBump
    /\ call.signer = game.authority
    /\ (call.winner = NoAddr
          \/ accounts[call.winner].balance + net_stake(call.amount) <= MaxU64)

\* C5 (as claimed): every attest-outcome call with a loser holding less than
\* the stake fails with InsufficientFunds and changes no balance.
C5_Original ==
    [][LoserIsShort => (call.err = "InsufficientFunds" /\ accounts' = accounts)]_vars

\* C5 (amended): every attest-outcome call with a loser holding less than the
\* stake fails and changes no balance, also not the winner's, credited
\* earlier in the call; the error is InsufficientFunds exactly when the
\* checks made before the loser's pass (the Game exists, seeds, authority,
\* winner credit).
C5_LoserShortAborts ==
    [][LoserIsShort =>
          /\ call.err # "Ok"
          /\ (call.err = "InsufficientFunds" <=> ReachesLoserCheck)
          /\ accounts' = accounts
          /\ tokens' = tokens]_vars

C5_Witness ==
    /\ LoserIsShort
    /\ call.err = "InsufficientFunds"
    /\ call.winner # NoAddr
    /\ call.winner # call.loser
    /\ staged.accounts[call.winner].balance > accounts[call.winner].balance

\* C6: a successful attest-outcome with winner and loser present raises the
\* winner's balance by net = s - floor(s / 10), the game operating balance
\* by fee = floor(s / 10), and lowers the loser's balance by s.
C6_Conservation ==
    [][(InCall("attest_outcome") /\ call.err = "Ok"
          /\ call.winner # NoAddr /\ call.loser # NoAddr)
        => /\ accounts'[call.winner].balance
                = accounts[call.winner].balance + net_stake(call.amount)
           /\ accounts'[call.loser].balance
                = accounts[call.loser].balance - call.amount
           /\ \A g \in GameAccounts(accounts) :
                accounts'[g].balance = accounts[g].balance + game_fee(call.amount)]_vars

\* C7 (as claimed): every withdraw of more than the record's balance fails
\* with InsufficientFunds; the balances and the token accounts stay as they
\* were.
C7_Original ==
    [][(InCall("withdraw") /\ call.amount > accounts[call.acct].balance)
        => /\ call.err = "InsufficientFunds"
           /\ accounts' = accounts
           /\ tokens' = tokens]_vars

\* C7 (amended): every withdraw of more than the record's balance fails and
\* the balances and the token accounts stay as they were; the error is
\* InsufficientFunds once the Game record exists, and the failed validation
\* of the game account before that.
C7_WithdrawInsufficient ==
    [][(InCall("withdraw") /\ call.amount > accounts[call.acct].balance)
        => /\ call.err = (IF game.exists THEN "InsufficientFunds"
                                           ELSE "AccountNotInitialized")
           /\ accounts' = accounts
           /\ tokens' = tokens]_vars

C7_Witness ==
    /\ InCall("withdraw")
    /\ call.amount > accounts[call.acct].balance
    /\ call.err = "InsufficientFunds"
    /\ accounts[call.acct].balance > 0
    /\ Vault(tokens) >= call.amount
    /\ GameSigns(game)

\* C8: a successful deposit of a raises the record's balance by a and the
\* game vault by a.
C8_DepositCredits ==
    [][(InCall("deposit") /\ call.err = "Ok")
        => /\ accounts'[call.acct].balance = accounts[call.acct].balance + call.amount
           /\ Vault(tokens') = Vault(tokens) + call.amount]_vars

\* C9: a deposit or admin-deposit whose transfer goes through and whose
\* amount takes the balance over the 64-bit maximum fails with
\* ArithmeticError; balance and vault stay as they were.
C9_DepositOverflow ==
    [][((InCall("deposit") \/ InCall("admin_deposit"))
          /\ TransferOk(tokens, call.from, call.signer, TRUE, call.amount)
          /\ accounts[call.acct].balance + call.amount > MaxU64)
        => /\ call.err = "ArithmeticError"
           /\ accounts' = accounts
           /\ tokens' = tokens]_vars

\* C10: create-user-account for an identity that already owns a record
\* fails with AlreadyExists and leaves the existing balances untouched.
C10_CreateTwice ==
    [][(InCall("create_user_account")
          /\ \E a \in Addrs : accounts[a].user = call.signer)
        => /\ call.err = AlreadyExists
           /\ accounts' = accounts]_vars

\* the token program refuses the transfer a deposit or admin-deposit asks
\* for: the source holds fewer tokens than the amount, or its owner is not
\* the signer
DepositTransferRefused ==
    /\ (InCall("deposit") \/ InCall("admin_deposit"))
    /\ (tokens[call.from] < call.amount \/ call.from # call.signer)
\* the token program refuses the transfer a withdraw or admin-withdraw asks
\* for after its account validation and its balance check: the source holds fewer tokens than the
\* amount, is not owned by the game, or the game's signature is not valid
WithdrawTransferRefused ==
    /\ (InCall("withdraw") \/ InCall("admin_withdraw"))
    /\ game.exists
    /\ accounts[call.acct].balance >= call.amount
    /\ (tokens[call.from] < call.amount \/ call.from # GamePda \/ ~GameSigns(game))

\* C11: whenever the token transfer of a deposit, withdraw, admin-deposit or
\* admin-withdraw is refused, the operation fails and no UserAccount balance
\* and no token amount, the vault's included, changes.
C11_TransferFailureAtomic ==
    [][(DepositTransferRefused \/ WithdrawTransferRefused)
        => /\ call.err = "TransferFailed"
           /\ accounts' = accounts
           /\ tokens' = tokens]_vars

C11_Witness ==
    /\ WithdrawTransferRefused
    /\ GameSigns(game)
    /\ Vault(tokens) < call.amount
    /\ call.err = "TransferFailed"

\* C12: once initialize has succeeded, Game.authority and Game.bump keep
\* their values under every operation, and every further initialize fails
\* because the record exists, changing neither the Game record nor any
\* balance, the game operating balance included.
C12_GameImmutable ==
    [][game.exists
        => /\ game' = game
           /\ (InCall("initialize")
                 => (call.err = AlreadyExists /\ accounts' = accounts))]_vars

C12_Witness ==
    /\ InCall("initialize")
    /\ game.exists
    /\ call.signer # game.authority
    /\ call.amount # game.bump
    /\ accounts[call.acct].user = "none"
    /\ \E g \in GameAccounts(accounts) : accounts[g].balance > 0
    /\ call.err = AlreadyExists

\* at most one record per owner, and exactly one owned by the game once the
\* game is initialized
OneRecordPerOwner(accs, g) ==
    /\ \A a, b \in Addrs :
          (accs[a].user # "none" /\ accs[a].user = accs[b].user) => a = b
    /\ g.exists => Cardinality(GameAccounts(accs)) = 1

\* C13: at every time there is at most one UserAccount record whose owner is
\* a given identity (the game's identity has exactly one, made by
\* initialize), and a record, once made, stays with its owner.
C13_OneRecordPerOwner ==
    [][/\ OneRecordPerOwner(accounts', game')
       /\ \A a \in Addrs :
             accounts[a].user # "none" => accounts'[a].user = accounts[a].user]_vars

\* a user's deposit from their own token account into the vault, or a
\* withdraw from the vault to their own token account
UserOp(st, kind, s, a, n) ==
    IF kind = "deposit" THEN DepositResult(st, s, a, s, GamePda, n)
                        ELSE WithdrawResult(st, a, GamePda, s, n)
\* two such instructions run one after the other on st
InOrder(st, k1, s1, a1, n1, k2, s2, a2, n2) ==
    LET r1 == UserOp(st, k1, s1, a1, n1)
        st1 == Settle(st, r1)
        r2 == UserOp(st1, k2, s2, a2, n2)
    IN [first |-> r1.err, second |-> r2.err, final |-> Settle(st1, r2)]

\* C14: two deposits or withdrawals by two different users on two different
\* UserAccount records give, in either order, each of them the same result
\* and the same final balances and token amounts.
C14_Independence ==
    pc = "idle" =>
      \A k1, k2 \in {"deposit", "withdraw"},
         s1, s2 \in Signers, a1, a2 \in Existing(accounts), n1, n2 \in Amounts :
            (s1 # s2 /\ a1 # a2) =>
               LET x == InOrder(Committed, k1, s1, a1, n1, k2, s2, a2, n2)
                   y == InOrder(Committed, k2, s2, a2, n2, k1, s1, a1, n1)
               IN /\ x.first = y.second
                  /\ x.second = y.first
                  /\ x.final = y.final

\* the states of the end-to-end scenario: the game record at address 1 and
\* U's record at address 2, with the balances and token amounts given
ScenarioState(k, gbal, ubal, vault) ==
    [game |-> IF k = 0 THEN NoGame
              ELSE [exists |-> TRUE, bump |-> 7, authority |-> "A"],
     accounts |-> [a \in Addrs |->
                     IF a = 1 /\ k >= 1 THEN [user |-> GamePda, balance |-> gbal]
                     ELSE IF a = 2 /\ k >= 2 THEN [user |-> "U", balance |-> ubal]
                     ELSE NoAccount],
     tokens |-> [t \in TokenAccts |->
                     IF t = GamePda THEN vault
                     ELSE IF t = "U" THEN InitialTokens["U"] - IF k >= 3 THEN 1000 ELSE 0
                     ELSE InitialTokens["A"] + IF k >= 5 THEN 50 ELSE 0]]
\* the call in progress is the given one
Calling(op, signer, acct, winner, loser, from, to, amount) ==
    /\ pc = "exec"
    /\ [call EXCEPT !.err = "none"] =
          [op |-> op, signer |-> signer, acct |-> acct, winner |-> winner,
           loser |-> loser, from |-> from, to |-> to, amount |-> amount,
           err |-> "none"]

\* C15: initialize(seed 7, authority A), create-user-account(U),
\* deposit(1000, U), attest-outcome(stake 500, winner U, no loser, signed by
\* A), admin-withdraw(50, admin A): every step succeeds, and the states are
\* game balance 0; U 0; U 1000; U 1450 and game 50; game 0 with the vault
\* lower by 50.
C15_Scenario ==
    [][/\ (Committed = ScenarioState(0, 0, 0, 0)
             /\ Calling("initialize", "A", 1, NoAddr, NoAddr, "none", "none", 7))
          => (call.err = "Ok" /\ Committed' = ScenarioState(1, 0, 0, 0))
       /\ (Committed = ScenarioState(1, 0, 0, 0)
             /\ Calling("create_user_account", "U", 2, NoAddr, NoAddr, "none", "none", 0))
          => (call.err = "Ok" /\ Committed' = ScenarioState(2, 0, 0, 0))
       /\ (Committed = ScenarioState(2, 0, 0, 0)
             /\ Calling("deposit", "U", 2, NoAddr, NoAddr, "U", GamePda, 1000))
          => (call.err = "Ok" /\ Committed' = ScenarioState(3, 0, 1000, 1000))
       /\ (Committed = ScenarioState(3, 0, 1000, 1000)
             /\ Calling("attest_outcome", "A", 1, 2, NoAddr, "none", "none", 500))
          => (call.err = "Ok" /\ Committed' = ScenarioState(4, 50, 1450, 1000))
       /\ (Committed = ScenarioState(4, 50, 1450, 1000)
             /\ Calling("admin_withdraw", "A", 1, NoAddr, NoAddr, GamePda, "A", 50))
          => (call.err = "Ok" /\ Committed' = ScenarioState(5, 0, 1450, 950))]_vars

\* what the four variants of attest-outcome add to the balance of record a
RoleEffect(a, winner, loser, stake) ==
    (IF a = winner THEN net_stake(stake) ELSE 0)
      - (IF a = loser THEN stake ELSE 0)
      + (IF a \in GameAccounts(accounts) THEN game_fee(stake) ELSE 0)

\* C16: an attest-outcome call signed by the authority, with a winner or
\* not, with a loser (holding at least the stake) or not, and with no credit
\* going over the 64-bit maximum, succeeds; the winner's balance grows by net
\* iff a winner is present, the loser's falls by the stake iff a loser is
\* present, the game operating balance grows by the fee in every variant, and
\* no other record and no token amount changes.
C16_OptionalRoles ==
    [][(/\ InCall("attest_outcome")
        /\ call.signer = game.authority
        /\ (call.loser = NoAddr \/ accounts[call.loser].balance >= call.amount)
        /\ \A a \in Addrs :
              accounts[a].balance + net_stake(call.amount) + game_fee(call.amount) <= MaxU64)
        => /\ call.err = "Ok"
           /\ \A a \in Addrs :
                 accounts'[a].balance
                    = accounts[a].balance + RoleEffect(a, call.winner, call.loser, call.amount)
           /\ tokens' = tokens]_vars

\* the cases of C17: the winner's credit, or the fee credited to the record
\* passed as game operating account, goes over the 64-bit maximum
WinnerOverflows ==
    /\ call.winner # NoAddr
    /\ accounts[call.winner].balance + net_stake(call.amount) > MaxU64
FeeOverflows == accounts[call.acct].balance + game_fee(call.amount) > MaxU64
AttestOverflows == InCall("attest_outcome") /\ (WinnerOverflows \/ FeeOverflows)
\* the call gets as far as the overflowing addition: the constraints pass,
\* and the fee's addition is reached only past the loser's balance check
ReachesOverflow ==
    /\ game.exists
    /\ game.bump = CanonicalBump
    /\ call.signer = game.authority
    /\ (WinnerOverflows
          \/ call.loser = NoAddr
          \/ accounts[call.loser].balance >= call.amount)

\* C17 (as claimed): an attest-outcome call in which the winner's balance
\* plus net, or the game balance plus fee, exceeds the 64-bit maximum fails
\* with ArithmeticError and every balance keeps its value.
C17_Original ==
    [][AttestOverflows => (call.err = "ArithmeticError" /\ accounts' = accounts)]_vars

\* C17 (amended): such a call fails and every balance keeps its value, a
\* winner credit and a loser debit made earlier in the call included (nothing
\* is wrapped or clamped); the error is ArithmeticError exactly when the
\* checks made before the overflowing addition pass (the Game exists, seeds,
\* authority and, for the fee, the loser's balance).
C17_OverflowAborts ==
    [][AttestOverflows =>
          /\ call.err # "Ok"
          /\ (call.err = "ArithmeticError" <=> ReachesOverflow)
          /\ accounts' = accounts
          /\ tokens' = tokens]_vars

C17_Witness ==
    /\ AttestOverflows
    /\ ~WinnerOverflows
    /\ call.err = "ArithmeticError"
    /\ call.winner # NoAddr
    /\ call.loser # NoAddr
    /\ staged.accounts[call.winner].balance > accounts[call.winner].balance
    /\ staged.accounts[call.loser].balance < accounts[call.loser].balance

\* C18: the record that attest-outcome credits with the fee and that
\* admin-deposit and admin-withdraw credit and debit is the game's own
\* operating account: no successful call of the three changes the balance of
\* a user-owned record passed in that role.
C18_GameAccountRole ==
    [][((InCall("attest_outcome") \/ InCall("admin_deposit") \/ InCall("admin_withdraw"))
          /\ call.err = "Ok"
          /\ accounts[call.acct].user # GamePda)
        => accounts'[call.acct].balance = accounts[call.acct].balance]_vars

\* the token vault moves with the ledger: what the balances gain or lose in
\* a step, the vault gains or loses too
Lockstep ==
    Vault(tokens') - SumBalances(accounts') = Vault(tokens) - SumBalances(accounts)
\* exactly one record's balance changes in a step, by the signed amount d
OneBalanceMoves(d) ==
    /\ accounts'[call.acct].balance = accounts[call.acct].balance + d
    /\ \A a \in Addrs \ {call.acct} : accounts'[a] = accounts[a]

\* C19: every successful deposit, withdraw, admin-deposit and admin-withdraw
\* changes exactly one balance and the vault by the same signed amount, so
\* the vault less the sum of the balances is unchanged by these four;
\* attest-outcome moves no tokens.
C19_Lockstep ==
    [][/\ ((InCall("deposit") \/ InCall("admin_deposit")) /\ call.err = "Ok")
          => /\ OneBalanceMoves(call.amount)
             /\ Vault(tokens') = Vault(tokens) + call.amount
             /\ Lockstep
       /\ ((InCall("withdraw") \/ InCall("admin_withdraw")) /\ call.err = "Ok")
          => /\ OneBalanceMoves(0 - call.amount)
             /\ Vault(tokens') = Vault(tokens) - call.amount
             /\ Lockstep
       /\ InCall("attest_outcome") => tokens' = tokens]_vars

\* C20: no subtraction underflows in a reachable state: stake - stake / 10 is
\* never negative, the checked_sub of withdraw and admin-withdraw never
\* panics, the loser's checked_sub in attest-outcome never gives
\* ArithmeticError (that error comes from an addition only), and every
\* balance stays within 0 .. 2^64 - 1.
C20_NoUnderflow ==
    /\ \A a \in Addrs : /\ accounts[a].balance \in 0..MaxU64
                        /\ staged.accounts[a].balance \in 0..MaxU64
    /\ InCall("attest_outcome") => net_stake(call.amount) \in 0..call.amount
    /\ (InCall("withdraw") \/ InCall("admin_withdraw")) => call.err # "Panic"
    /\ (InCall("attest_outcome") /\ call.err = "ArithmeticError")
          => (WinnerOverflows \/ FeeOverflows)

C20_Witness ==
    /\ InCall("attest_outcome")
    /\ call.err = "Ok"
    /\ call.loser # NoAddr
    /\ accounts[call.loser].balance > call.amount
    /\ call.amount > game_fee(call.amount)
    /\ game_fee(call.amount) > 0
    /\ staged.accounts[call.loser].balance = accounts[call.loser].balance - call.amount
====
